---- MODULE Spec2Model ----
(***************************************************************************)
(* Model of main() of polynomialOpticsExample_modified.cpp: precomputation *)
(* of the spectral bins, composition of the wavelength-interpolated        *)
(* system, the Monte Carlo render loops (bin, row, column, sample), the    *)
(* gamut pass and the save of the output image.                            *)
(*                                                                         *)
(* Floating point values are modelled as exact fixed-point rationals:      *)
(*   - a wavelength is a record [num, den] (den = num_lambdas - 1);        *)
(*   - L_in is an integer count of 1/PRes;                                 *)
(*   - out[2] and lambert are rationals [num, den] with den = AScale;      *)
(*   - an aperture coordinate is an integer count of 1/RAND_MAX;           *)
(*   - a channel of img_out is an integer count of 1/ImgDen before the     *)
(*     gamut pass (see ImgDen).                                            *)
(* A float that is not a number is a rational with den = 0.  Rounding of   *)
(* float arithmetic is not modelled.  The polynomial library, CImg,        *)
(* spectrum.h and rand() are not part of the source file: their results    *)
(* are drawn from bounded sets.  A local variable that is out of scope,    *)
(* or that is not read again, holds 0 (a number) or None (a record).       *)
(***************************************************************************)
EXTENDS Integers, Sequences, FiniteSets

(* ------------------------------ bounds -------------------------------- *)
\* largest working degree tried (source: degree = 3)
MaxDegree == 3
\* largest number of spectral bins tried in the compositor specification
MaxLambdas == 4
\* largest number of spectral bins tried in the render specification
MaxBins == 2
\* largest pupil radius tried (source: r_entrance = 19.5)
MaxPupil == 1
\* input image is at most MaxWidth x MaxHeight
MaxWidth == 1
MaxHeight == 1
\* output image resolution of the model (source: 1920 x 1080)
sensor_xres == 1
sensor_yres == 1
\* L_in ranges over -MaxPower..MaxPower counts of 1/PRes
MaxPower == 2
PRes == 2
\* largest sample multiplier tried (source: sample_mul = 1000)
MaxSampleMul == 2
\* value returned by rand() ranges over 0..RAND_MAX
RAND_MAX == 2
\* rand()'s hidden generator state has RandPeriod values
RandPeriod == 3
\* out[2] ranges over -MaxOut2..MaxOut2 counts of 1/AScale
MaxOut2 == 5
AScale == 4
\* an RGB weight of a bin is a triple over -MaxRgb..MaxRgb
MaxRgb == 1

(* ------------------------- program constants -------------------------- *)
lambda_from == 440
lambda_to == 660
SingleBinLambda == 550
CenterLambda == 500
RightLambda == 600
LerpPosition0 == 550
LerpPosition1 == 600
DefaultDegree == 3
SourceDegree == 3
AngleDegree == 2
\* 0.02f = 1 / GamutDen
GamutDen == 50

\* a float that is not a number: 0 / 0
NaN == [num |-> 0, den |-> 0]

\* x != x
IsNaN(x) == x.den = 0
\* the value of a record variable that holds nothing yet
None == [none |-> TRUE]

(* ------------------------------ helpers ------------------------------- *)
Max2(a, b) == IF a >= b THEN a ELSE b

Max3(t) == Max2(t[1], Max2(t[2], t[3]))

RECURSIVE Factorial(_)
Factorial(n) == IF n <= 1 THEN 1 ELSE n * Factorial(n - 1)

RECURSIVE ISqrtFrom(_, _)
ISqrtFrom(v, k) == IF (k + 1) * (k + 1) > v THEN k ELSE ISqrtFrom(v, k + 1)

\* floor of the square root of v >= 0
ISqrt(v) == ISqrtFrom(v, 0)

\* floor(num / den) for den > 0
Floor(num, den) == num \div den

\* equality of two wavelengths [num, den]
RatEq(a, b) == a.num * b.den = b.num * a.den

\* the integer wavelength w as a rational
Rat(w) == [num |-> w, den |-> 1]

(* --------------------------- external results -------------------------- *)
\* spectrum_p_to_rgb(lambda, 1, .): some RGB weight, negative lobes included
RgbSet == {<<MaxRgb, MaxRgb, MaxRgb>>, <<MaxRgb, -1, 0>>}

\* spectrum_rgb_to_p(lambda, rgbin): some power, in counts of 1/PRes
PowerSet == (-MaxPower)..MaxPower

\* out[2] of system_y.evaluate: some angle term, in counts of 1/AScale
Out2Set ==
  {[num |-> o, den |-> AScale] : o \in (-MaxOut2)..MaxOut2} \cup {NaN}

\* pixels of img_out, row-major: pixel (i, j) is j * sensor_xres + i
Pixels == 0..(sensor_xres * sensor_yres - 1)

\* where out[0], out[1] land: a pixel of img_out, or outside the image
Locs == Pixels \cup {-1}

\* the largest sample count of a pixel
MaxSamples == Max2(1, (MaxPower * MaxSampleMul) \div PRes)

\* a channel of img_out is a count of 1 / ImgDen, and every splat is a
\* multiple of GamutDen of them, so that 0.02f * max_value is a whole count
ImgDen == GamutDen * AScale * PRes * Factorial(MaxSamples)

VARIABLES
  pc,                      \* position in main()
  degree, sample_mul, r_pupil, num_lambdas,   \* input params (lines 78-81, 97)
  width, height,           \* size of img_in (lines 94-95)
  rgb,                     \* rgb[ll+1]: wavelength and RGB weight of bin ll
  system_spectral_center, system_spectral_right,
  system_spectral, system_lambert_cos2,
  ll, lambda, system_lambda,
  j, system_y, i,
  L_in, num_samples, sample_weight, sample,
  x_ap, y_ap, out2, loc, lambert,
  randState,               \* hidden state of rand()
  img_out,
  gpix, max_value,         \* gamut pass: next pixel, max_value of the last one
  saved                    \* number of img_out.save calls

params == <<degree, sample_mul, r_pupil, num_lambdas, width, height>>
systems == <<system_spectral_center, system_spectral_right,
             system_spectral, system_lambert_cos2>>
binvars == <<ll, lambda, system_lambda>>
rowvars == <<j, system_y>>
pixvars == <<i, L_in, num_samples, sample_weight>>
smpvars == <<sample, x_ap, y_ap, out2, loc, lambert>>
gamvars == <<gpix, max_value, saved>>
vars == <<pc, params, rgb, systems, binvars, rowvars, pixvars, smpvars,
          randState, img_out, gamvars>>

(* --------------------- spectral bins (lines 118-130) ------------------- *)
\* ll / (float)(num_lambdas - 1): 0/0 is NaN
BinFraction(k, n) == [num |-> k, den |-> n - 1]

\* lambda_from + (lambda_to - lambda_from) * fraction
BinLambdaRaw(k, n) ==
  LET f == BinFraction(k, n) IN
  IF IsNaN(f) THEN NaN
  ELSE [num |-> lambda_from * f.den + (lambda_to - lambda_from) * f.num,
        den |-> f.den]

\* wavelength of bin ll in the precomputation of the spectrum
PrecomputeLambda(k, n) ==
  IF n = 1 THEN Rat(SingleBinLambda) ELSE BinLambdaRaw(k, n)

\* a render loop that divides by num_lambdas instead of num_lambdas - 1
RenderLambda_overN(k, n) ==
  IF n = 1 THEN Rat(SingleBinLambda)
  ELSE [num |-> lambda_from * n + (lambda_to - lambda_from) * k, den |-> n]

\* wavelength of bin ll in the render loop
RenderLambda(k, n) ==
  IF n = 1 THEN Rat(SingleBinLambda) ELSE BinLambdaRaw(k, n)

\* one iteration of the loop that precomputes the spectrum
PrecomputeSpectrum ==
  /\ pc = "spectrum"
  /\ ll < num_lambdas
  /\ \E w \in RgbSet :
       rgb' = Append(rgb, [lambda |-> PrecomputeLambda(ll, num_lambdas),
                           w |-> w])
  /\ ll' = ll + 1
  /\ UNCHANGED <<pc, params, systems, lambda, system_lambda, rowvars,
                 pixvars, smpvars, randState, img_out, gamvars>>

(* ------------------ spectral compositor (lines 132-144) ---------------- *)
\* get_system(lambda, degree): the lens at one wavelength, built to a degree
get_system(l, d) == [lambda |-> l, degree |-> d]

\* system >> prop, with prop = propagate_5(d3, degree)
compose_prop(s, d) ==
  [lambda |-> s.lambda, degree |-> s.degree, prop_degree |-> d]

\* the degree get_system(500) is built with: its default argument
CenterDegree(d) == DefaultDegree

\* the degree get_system(600, degree) is built with
RightDegree(d) == d

\* the two control values handed to lerp_with
LerpPositions == <<LerpPosition0, LerpPosition1>>

\* a.lerp_with(b, position0, position1): a at position0, b at position1,
\* with the control value as one more input variable
lerp_with(a, b, pos) ==
  [a |-> a, b |-> b, position0 |-> pos[1], position1 |-> pos[2],
   equations |-> 4]

\* a truncation of system_spectral[2] to the working degree
AngleTruncation_working(d) == d

\* the degree system_spectral[2] is truncated to: system_spectral[2] %= 2
AngleTruncation(d) == AngleDegree

\* the degree system_lambda is truncated to: system_lambda %= degree
LambdaTruncation(d) == d

\* bake_input_variable(4, lambda) on an interpolated system: the weights of
\* its two boundary systems at wavelength l, as counts of 1 / den
bake_lambda(s, l) ==
  [a |-> s.a, b |-> s.b,
   wa |-> s.position1 * l.den - l.num,
   wb |-> l.num - s.position0 * l.den,
   den |-> (s.position1 - s.position0) * l.den,
   angle_degree |-> s.angle_degree]

\* system_lambda %= degree
truncate(s, d) ==
  [a |-> s.a, b |-> s.b, wa |-> s.wa, wb |-> s.wb, den |-> s.den,
   angle_degree |-> s.angle_degree, degree |-> LambdaTruncation(d)]

\* system_spectral[2] = [2]*[2] + [3]*[3]; system_spectral[2] %= 2
combine_angle(s, d) ==
  [a |-> s.a, b |-> s.b, position0 |-> s.position0,
   position1 |-> s.position1, equations |-> s.equations,
   angle_degree |-> AngleTruncation(d)]

\* drop_equation(3)
drop_equation(s) == [s EXCEPT !.equations = s.equations - 1]

\* lines 132-144, after the loop that precomputes the spectrum
Compose ==
  /\ pc = "spectrum"
  /\ ll >= num_lambdas
  /\ LET center == compose_prop(get_system(CenterLambda,
                                            CenterDegree(degree)), degree)
         right == compose_prop(get_system(RightLambda, RightDegree(degree)),
                               degree)
         spectral == combine_angle(lerp_with(center, right, LerpPositions),
                                   degree)
     IN /\ system_spectral_center' = center
        /\ system_spectral_right' = right
        /\ system_spectral' = spectral
        /\ system_lambert_cos2' = drop_equation(spectral)
  /\ ll' = 0
  /\ pc' = "bin"
  /\ UNCHANGED <<params, rgb, lambda, system_lambda, rowvars, pixvars,
                 smpvars, randState, img_out, gamvars>>

(* ----------------------- render loops (lines 150-224) ------------------ *)
\* head of the loop over the bins: bake lambda, or leave the loop
BeginBin ==
  /\ pc = "bin"
  /\ ll < num_lambdas
  /\ lambda' = RenderLambda(ll, num_lambdas)
  /\ system_lambda' =
       truncate(bake_lambda(system_lambert_cos2,
                            RenderLambda(ll, num_lambdas)), degree)
  /\ j' = 0
  /\ pc' = "row"
  /\ UNCHANGED <<params, rgb, systems, ll, system_y, pixvars, smpvars,
                 randState, img_out, gamvars>>

EndBins ==
  /\ pc = "bin"
  /\ ll >= num_lambdas
  /\ gpix' = 0
  /\ pc' = "gamut"
  /\ UNCHANGED <<params, rgb, systems, binvars, rowvars, pixvars, smpvars,
                 randState, img_out, max_value, saved>>

\* head of the loop over the rows: bake y_world of row j
BeginRow ==
  /\ pc = "row"
  /\ j < height
  /\ system_y' = [system |-> system_lambda, row |-> j]
  /\ i' = 0
  /\ pc' = "col"
  /\ UNCHANGED <<params, rgb, systems, binvars, j, L_in, num_samples,
                 sample_weight, smpvars, randState, img_out, gamvars>>

EndRows ==
  /\ pc = "row"
  /\ j >= height
  /\ ll' = ll + 1
  /\ pc' = "bin"
  /\ UNCHANGED <<params, rgb, systems, lambda, system_lambda, rowvars,
                 pixvars, smpvars, randState, img_out, gamvars>>

\* (int)(L_in * sample_mul): the product is p * m / PRes, cut towards zero
ToInt(p, m) ==
  IF p * m >= 0 THEN (p * m) \div PRes ELSE -((-(p * m)) \div PRes)

\* a sample count without the max(1, .)
NumSamples_unclamped(p, m) == ToInt(p, m)

\* max(1, (int)(L_in * sample_mul))
NumSamples(p, m) == Max2(1, ToInt(p, m))

\* L_in / num_samples: p / (PRes * n)
SampleWeight(p, n) == [num |-> p, den |-> PRes * n]

\* head of the loop over the columns: L_in, num_samples, sample_weight
BeginPixel ==
  /\ pc = "col"
  /\ i < width
  /\ \E p \in PowerSet :
       /\ L_in' = p
       /\ num_samples' = NumSamples(p, sample_mul)
       /\ sample_weight' = SampleWeight(p, NumSamples(p, sample_mul))
  /\ sample' = 0
  /\ pc' = "sample"
  /\ UNCHANGED <<params, rgb, systems, binvars, rowvars, i, x_ap, y_ap,
                 out2, loc, lambert, randState, img_out, gamvars>>

EndPixels ==
  /\ pc = "col"
  /\ i >= width
  /\ j' = j + 1
  /\ pc' = "row"
  /\ UNCHANGED <<params, rgb, systems, binvars, system_y, pixvars, smpvars,
                 randState, img_out, gamvars>>

\* head of the loop over the samples of a pixel
BeginSample ==
  /\ pc = "sample"
  /\ sample < num_samples
  /\ pc' = "draw"
  /\ UNCHANGED <<params, rgb, systems, binvars, rowvars, pixvars, smpvars,
                 randState, img_out, gamvars>>

\* the samples of the pixel are done: its locals go out of scope
EndSamples ==
  /\ pc = "sample"
  /\ sample >= num_samples
  /\ i' = i + 1
  /\ L_in' = 0 /\ num_samples' = 0 /\ sample_weight' = None
  /\ sample' = 0
  /\ pc' = "col"
  /\ UNCHANGED <<params, rgb, systems, binvars, rowvars, x_ap, y_ap, out2,
                 loc, lambert, randState, img_out, gamvars>>

\* one call of rand() moves its hidden state on
NextRand(st) == (st + 1) % RandPeriod

\* (rand() / (float)RAND_MAX - 0.5) * 2 * r_pupil, in counts of 1 / RAND_MAX
ApertureCoord(rv, r) == (2 * rv - RAND_MAX) * r

\* a do-while whose condition is turned around
Rejected_flipped(x, y, r) == x * x + y * y < (r * RAND_MAX) * (r * RAND_MAX)

\* the condition of the do-while: x_ap^2 + y_ap^2 > r_pupil^2
Rejected(x, y, r) == x * x + y * y > (r * RAND_MAX) * (r * RAND_MAX)

\* one pass through the body of the do-while: two calls of rand()
DrawPoint(x, y) ==
  /\ pc = "draw"
  /\ x_ap' = x
  /\ y_ap' = y
  /\ randState' = NextRand(NextRand(randState))
  /\ pc' = IF Rejected(x, y, r_pupil) THEN "draw" ELSE "eval"
  /\ UNCHANGED <<params, rgb, systems, binvars, rowvars, pixvars, sample,
                 out2, loc, lambert, img_out, gamvars>>

\* the drawn point is outside the circle: the do-while repeats
DrawReject ==
  \E rx, ry \in 0..RAND_MAX :
    /\ Rejected(ApertureCoord(rx, r_pupil), ApertureCoord(ry, r_pupil),
                r_pupil)
    /\ DrawPoint(ApertureCoord(rx, r_pupil), ApertureCoord(ry, r_pupil))

\* the drawn point is inside the circle: the do-while ends
DrawAccept ==
  \E rx, ry \in 0..RAND_MAX :
    /\ ~Rejected(ApertureCoord(rx, r_pupil), ApertureCoord(ry, r_pupil),
                 r_pupil)
    /\ DrawPoint(ApertureCoord(rx, r_pupil), ApertureCoord(ry, r_pupil))

\* sqrt(1 - out[2]), in counts of 1 / AScale; NaN for a negative argument
SqrtOneMinus(o) ==
  IF IsNaN(o) THEN NaN
  ELSE IF o.den - o.num < 0 THEN NaN
  ELSE [num |-> ISqrt(o.den * (o.den - o.num)), den |-> o.den]

\* if (lambert != lambert) lambert = 0
NanCheck(l) == IF IsNaN(l) THEN [num |-> 0, den |-> AScale] ELSE l

\* lines 198-215: the jitter (one call of rand()), evaluate at in[] (which
\* takes x_ap and y_ap: they are not read again), lambert
Evaluate ==
  /\ pc = "eval"
  /\ randState' = NextRand(randState)
  /\ \E o \in Out2Set, l \in Locs :
       /\ out2' = o
       /\ loc' = l
       /\ lambert' = NanCheck(SqrtOneMinus(o))
  /\ x_ap' = 0 /\ y_ap' = 0
  /\ pc' = "splat"
  /\ UNCHANGED <<params, rgb, systems, binvars, rowvars, pixvars, sample,
                 img_out, gamvars>>

\* lambert * sample_weight * rgb[c + 3 * ll], in counts of 1 / ImgDen
SplatValue(lam, wgt, c) ==
  (lam.num * wgt.num * c * ImgDen) \div (lam.den * wgt.den)

\* set_linear_atXY with is_added = false: the value replaces the pixel
set_linear_atXY_overwrite(old, value) == value

\* set_linear_atXY(value, out[0], out[1], 0, c, true): added to the pixel the
\* point falls on, dropped outside the image
set_linear_atXY(old, value) == old + value

\* the three calls of set_linear_atXY of a sample
SplatRGB(img, l, lam, wgt, w) ==
  IF l \notin Pixels THEN img
  ELSE [img EXCEPT ![l] =
          <<set_linear_atXY(img[l][1], SplatValue(lam, wgt, w[1])),
            set_linear_atXY(img[l][2], SplatValue(lam, wgt, w[2])),
            set_linear_atXY(img[l][3], SplatValue(lam, wgt, w[3]))>>]

\* a sample loop that does not count
NextSample_stuck(k) == k

\* ++sample
NextSample(k) == k + 1

\* a splat that folds lambert into sample_weight in place
Splat_scalesWeight ==
  /\ pc = "splat"
  /\ sample_weight' = [num |-> sample_weight.num * lambert.num,
                       den |-> sample_weight.den * lambert.den]
  /\ img_out' = SplatRGB(img_out, loc, [num |-> 1, den |-> 1], sample_weight',
                         rgb[ll + 1].w)
  /\ sample' = NextSample(sample)
  /\ out2' = None /\ loc' = 0 /\ lambert' = None
  /\ pc' = "sample"
  /\ UNCHANGED <<params, rgb, systems, binvars, rowvars, i, L_in,
                 num_samples, x_ap, y_ap, randState, gamvars>>

\* lines 217-221: the splat, and the locals of the sample go out of scope
Splat ==
  /\ pc = "splat"
  /\ img_out' = SplatRGB(img_out, loc, lambert, sample_weight, rgb[ll + 1].w)
  /\ sample' = NextSample(sample)
  /\ out2' = None /\ loc' = 0 /\ lambert' = None
  /\ pc' = "sample"
  /\ UNCHANGED <<params, rgb, systems, binvars, rowvars, pixvars, x_ap, y_ap,
                 randState, gamvars>>

(* ------------------------ gamut pass (lines 227-239) ------------------- *)
\* 0.02f * max_value
GamutFloor(m) == m \div GamutDen

\* a gamut pass that takes the smaller of the two
GamutChannel_min(c, m) == IF c <= m \div GamutDen THEN c ELSE m \div GamutDen

\* max(img_out.atXY(i, j, 0, c), 0.02f * max_value)
GamutChannel(c, m) == Max2(c, GamutFloor(m))

\* the body of the loop over the pixels of img_out
GamutPixel ==
  /\ pc = "gamut"
  /\ gpix < sensor_xres * sensor_yres
  /\ max_value' = Max3(img_out[gpix])
  /\ img_out' = [img_out EXCEPT ![gpix] =
                   <<GamutChannel(img_out[gpix][1], Max3(img_out[gpix])),
                     GamutChannel(img_out[gpix][2], Max3(img_out[gpix])),
                     GamutChannel(img_out[gpix][3], Max3(img_out[gpix]))>>]
  /\ gpix' = gpix + 1
  /\ UNCHANGED <<pc, params, rgb, systems, binvars, rowvars, pixvars,
                 smpvars, randState, saved>>

EndGamut ==
  /\ pc = "gamut"
  /\ gpix >= sensor_xres * sensor_yres
  /\ pc' = "save"
  /\ UNCHANGED <<params, rgb, systems, binvars, rowvars, pixvars, smpvars,
                 randState, img_out, gamvars>>

\* img_out.save(fn), and main returns
Save ==
  /\ pc = "save"
  /\ saved' = saved + 1
  /\ pc' = "done"
  /\ UNCHANGED <<params, rgb, systems, binvars, rowvars, pixvars, smpvars,
                 randState, img_out, gpix, max_value>>

(* ---------------------------- specifications --------------------------- *)
InitState ==
  /\ pc = "spectrum"
  /\ rgb = <<>>
  /\ system_spectral_center = None /\ system_spectral_right = None
  /\ system_spectral = None /\ system_lambert_cos2 = None
  /\ ll = 0 /\ lambda = None /\ system_lambda = None
  /\ j = 0 /\ system_y = None /\ i = 0
  /\ L_in = 0 /\ num_samples = 0 /\ sample_weight = None
  /\ sample = 0
  /\ x_ap = 0 /\ y_ap = 0 /\ out2 = None /\ loc = 0
  /\ lambert = None
  /\ randState = 0
  /\ img_out = [p \in Pixels |-> <<0, 0, 0>>]
  /\ gpix = 0 /\ max_value = 0 /\ saved = 0

\* the whole of main(), with the working degree of the source
Init ==
  /\ degree = SourceDegree
  /\ sample_mul \in 1..MaxSampleMul
  /\ r_pupil \in 0..MaxPupil
  /\ num_lambdas \in 1..MaxBins
  /\ width \in 1..MaxWidth
  /\ height \in 1..MaxHeight
  /\ InitState

Next ==
  \/ PrecomputeSpectrum \/ Compose
  \/ BeginBin \/ EndBins \/ BeginRow \/ EndRows
  \/ BeginPixel \/ EndPixels \/ BeginSample \/ EndSamples
  \/ DrawReject \/ DrawAccept \/ Evaluate \/ Splat
  \/ GamutPixel \/ EndGamut \/ Save

Spec == Init /\ [][Next]_vars

\* the scheduling of a sequential program: it takes its next step, and a
\* fair rand() eventually draws a point inside the circle
FairSpec == Spec /\ WF_vars(Next) /\ WF_vars(DrawAccept)

\* lines 163-223 as the compositor sees them: the rows of bin ll are
\* rendered, which leaves the bins and the systems alone (img_out and the
\* state of rand() are not followed in SpecSpectral)
RenderRows ==
  /\ pc = "row"
  /\ ll' = ll + 1
  /\ pc' = "bin"
  /\ UNCHANGED <<params, rgb, systems, lambda, system_lambda, rowvars,
                 pixvars, smpvars, randState, img_out, gamvars>>

\* the compositor for every working degree and bin count
InitSpectral ==
  /\ degree \in 1..MaxDegree
  /\ sample_mul = 1
  /\ r_pupil = 0
  /\ num_lambdas \in 1..MaxLambdas
  /\ width = 1
  /\ height = 1
  /\ InitState

NextSpectral ==
  \/ PrecomputeSpectrum \/ Compose \/ BeginBin \/ RenderRows \/ EndBins

SpecSpectral == InitSpectral /\ [][NextSpectral]_vars

(* ================================ claims =============================== *)
\* the pixel the gamut pass visited last, once it has visited one
GamutVisited == pc \in {"gamut", "save", "done"} /\ gpix >= 1

LastPixel == img_out[gpix - 1]

\* C1 as stated: after the gamut pass has visited a pixel, each channel is
\* >= 0.02 x the pixel's maximum channel, and that maximum is the one the
\* pixel had before the pass (max_value), for every triple of channels
C1_FloorAndMaxUnchanged ==
  GamutVisited =>
    /\ \A c \in 1..3 : GamutDen * LastPixel[c] >= max_value
    /\ Max3(LastPixel) = max_value

\* C1 amended: each channel is >= 0.02 x the maximum before the pass; the
\* maximum is unchanged when it was >= 0; when all three channels were
\* negative every channel becomes 0.02 x the old maximum
C1_FloorAndMaxUnchangedIfNonNegative ==
  GamutVisited =>
    /\ \A c \in 1..3 : GamutDen * LastPixel[c] >= max_value
    /\ max_value >= 0 => Max3(LastPixel) = max_value
    /\ max_value < 0 => \A c \in 1..3 : GamutDen * LastPixel[c] = max_value

\* a visited pixel with a positive maximum and a channel on the 2% floor
C1_Witness ==
  /\ GamutVisited
  /\ max_value > 0
  /\ \E c \in 1..3 : GamutDen * LastPixel[c] = max_value

\* C2: the sample count of a pixel is max(1, floor(p * m)), and the sample
\* weight times the sample count is p, for positive, zero and negative p
C2_SampleCountAndWeight ==
  pc \in {"sample", "draw", "eval", "splat"} =>
    /\ num_samples = Max2(1, Floor(L_in * sample_mul, PRes))
    /\ ~IsNaN(sample_weight)
    /\ sample_weight.num * num_samples * PRes = L_in * sample_weight.den

\* a pixel of negative power whose p * m is not whole (floor and the cast
\* to int differ), with its samples under way
C2_Witness ==
  /\ pc = "splat"
  /\ L_in < 0
  /\ (L_in * sample_mul) % PRes # 0

\* C3: the Lambertian factor of a splat is in [0, 1], for every out[2]
C3_LambertInUnitInterval ==
  pc = "splat" => (0 <= lambert.num /\ lambert.num <= lambert.den)

\* C4: after the gamut pass has visited a pixel none of its channels is
\* negative
C4_NonNegativeAfterGamut ==
  GamutVisited => \A c \in 1..3 : LastPixel[c] >= 0

\* C5: the control values of the interpolation are the wavelengths the two
\* boundary systems were built at: baked at the first the interpolated
\* system is the first boundary system, at the second the second, and a bin
\* strictly between is a convex combination
C5_LerpEndpoints ==
  pc \notin {"spectrum"} =>
    /\ system_spectral.position0 = system_spectral_center.lambda
    /\ system_spectral.position1 = system_spectral_right.lambda
    /\ bake_lambda(system_lambert_cos2, Rat(system_spectral_center.lambda)).wb
         = 0
    /\ bake_lambda(system_lambert_cos2, Rat(system_spectral_right.lambda)).wa
         = 0
    /\ ( /\ pc = "row"
         /\ lambda.num > system_spectral_center.lambda * lambda.den
         /\ lambda.num < system_spectral_right.lambda * lambda.den )
       => (system_lambda.wa >= 0 /\ system_lambda.wb >= 0)

\* a step of an iteration of the sample loop
InSampleIteration ==
  \/ pc \in {"draw", "eval", "splat"}
  \/ pc = "sample" /\ pc' = "draw"

C7_Terminates == <>(pc = "done" /\ saved = 1)

\* main() has returned, two bins of two samples rendered with a pupil of
\* positive radius (where draws are rejected)
C7_Witness ==
  /\ pc = "done"
  /\ saved = 1
  /\ num_lambdas >= 2
  /\ r_pupil > 0
  /\ randState # 0

\* C8: bin k of n >= 2 bins is at lambda_from + (lambda_to - lambda_from) *
\* k / (n - 1), bin 0 at lambda_from and bin n - 1 at lambda_to; a single
\* bin is at the centre of the range; and the wavelength baked for a bin is
\* the one its RGB weight was computed at
C8_BinWavelengths ==
  /\ \A k \in 1..Len(rgb) :
       /\ ~IsNaN(rgb[k].lambda)
       /\ IF num_lambdas >= 2
          THEN rgb[k].lambda.num * (num_lambdas - 1) =
                 rgb[k].lambda.den * (lambda_from * (num_lambdas - 1)
                                      + (lambda_to - lambda_from) * (k - 1))
          ELSE 2 * rgb[k].lambda.num =
                 rgb[k].lambda.den * (lambda_from + lambda_to)
  /\ (num_lambdas >= 2 /\ Len(rgb) >= 1) =>
       RatEq(rgb[1].lambda, Rat(lambda_from))
  /\ (num_lambdas >= 2 /\ Len(rgb) = num_lambdas) =>
       RatEq(rgb[num_lambdas].lambda, Rat(lambda_to))
  /\ pc = "row" =>
       /\ ~IsNaN(lambda)
       /\ RatEq(lambda, rgb[ll + 1].lambda)
       /\ system_lambda.wa * lambda.den =
            (system_lambert_cos2.position1 * lambda.den - lambda.num)
              * lambda.den

\* an inner bin of at least three being rendered
C8_Witness ==
  /\ pc = "row"
  /\ num_lambdas >= 3
  /\ ll = 1

\* C9 as stated: the degree the angle term is truncated to is the working
\* degree, which also builds the boundary systems and re-truncates after
\* baking
C9_AngleTruncatedToWorkingDegree ==
  pc \notin {"spectrum"} =>
    /\ system_spectral.angle_degree = degree
    /\ system_spectral_center.degree = degree
    /\ system_spectral_right.degree = degree
    /\ pc = "row" => system_lambda.degree = degree

\* C9 amended: the angle term is truncated to degree 2 whatever the working
\* degree; the working degree builds the 600nm boundary system and
\* re-truncates after baking; the 500nm boundary system is built with the
\* default degree 3 of get_system
C9_AngleTruncatedToTwo ==
  pc \notin {"spectrum"} =>
    /\ system_spectral.angle_degree = AngleDegree
    /\ system_lambert_cos2.angle_degree = AngleDegree
    /\ system_spectral_center.degree = DefaultDegree
    /\ system_spectral_right.degree = degree
    /\ pc = "row" =>
         /\ system_lambda.degree = degree
         /\ system_lambda.angle_degree = AngleDegree

\* a bin baked with a working degree that is neither 2 nor the default
C9_Witness ==
  /\ pc = "row"
  /\ degree # AngleDegree
  /\ degree # DefaultDegree

\* C10: the do-while ends only with a point inside the circle of radius
\* r_pupil; with r_pupil = 0 it ends after its first draw, at (0, 0)
C10_ApertureInsidePupil ==
  [][pc = "draw" =>
       /\ pc' = "eval" =>
            x_ap' * x_ap' + y_ap' * y_ap'
              <= (r_pupil * RAND_MAX) * (r_pupil * RAND_MAX)
       /\ r_pupil = 0 => (pc' = "eval" /\ x_ap' = 0 /\ y_ap' = 0)]_vars

\* the second sample of a pixel about to be evaluated with a pupil of
\* radius 0
C10_Witness ==
  /\ pc = "eval"
  /\ r_pupil = 0
  /\ sample >= 1
  /\ x_ap = 0 /\ y_ap = 0

====
